---- MODULE Spec2Model ----
(***************************************************************************)
(* A model of the cellular-automata simulator of src/index.tsx: the        *)
(* component's state (configuration, grid, history, counters), the         *)
(* simulation step of both modes, the animation tick and the UI handlers   *)
(* that change the state.                                                  *)
(*                                                                         *)
(* Arrays are sequences: the cell the code addresses as grid[y][x]         *)
(* (0-based) is gridRef[y + 1][x + 1] here.  birth2D and survival2D are    *)
(* only ever read through includes() and never hold duplicates, so they    *)
(* are sets.  trails is kept in hundredths.                                *)
(*                                                                         *)
(* The loop: a callback handed to requestAnimationFrame is the animate of   *)
(* one render, which reads the config and isRunning of that render and the *)
(* refs as they are when it runs; pending holds each such callback with    *)
(* its handle and the two values it closes over.  A handler and the        *)
(* effects its state change re-runs are one action: React flushes the      *)
(* effects of a discrete event before the event returns.                   *)
(*                                                                         *)
(* The canvas: draw fades what is there and paints the live cells over it; *)
(* canvas is that top layer, the cells of the last draw.                   *)
(*                                                                         *)
(* Time: a tick carries the timestamp requestAnimationFrame hands it.     *)
(* A tick that does not step changes no state, so the only constraint the  *)
(* monotonic clock puts on a state sequence is that a tick's time is not   *)
(* before lastUpdateRef; the specifications draw tick times from there.    *)
(***************************************************************************)
EXTENDS Integers, Sequences, FiniteSets, TLC

VARIABLES
    config,         \* useState<Config>
    activePreset,   \* useState<string | null>
    isRunning,      \* useState(true)
    generation,     \* useState(0)
    gridRef,        \* useRef<number[][]>([])
    historyRef,     \* useRef<number[][]>([])
    lastUpdateRef,  \* useRef<number>(0)
    cycleHueRef,    \* useRef<number>(0)
    innerWidth,     \* window.innerWidth
    innerHeight,    \* window.innerHeight
    phase,          \* "constructed" | "mounted" | "crashed" | "unmounted"
    requestRef,     \* useRef<number>(0): the handle of the last request
    pending,        \* the animation-frame callbacks the browser holds
    canvas,         \* what the last draw (or clearRect) left on top
    drawCalls,      \* history variable: calls of draw in the latest run of animate
    stepCalls,      \* history variable: calls of step since the last initGrid
    generated,      \* history variable: 1D rows produced since the last 1D initGrid
    lived           \* history variable: per 2D cell, consecutive generations alive

vars == <<config, activePreset, isRunning, generation, gridRef, historyRef,
          lastUpdateRef, cycleHueRef, innerWidth, innerHeight, phase,
          requestRef, pending, canvas, drawCalls, stepCalls, generated, lived>>

uiVars == <<config, activePreset, isRunning>>
storeVars == <<gridRef, historyRef, generation, cycleHueRef>>
ghostVars == <<stepCalls, generated, lived>>
viewVars == <<innerWidth, innerHeight>>
loopVars == <<requestRef, pending>>

----------------------------------------------------------------------------
(* Program constants *)

AgeCap == 100
HueCycle == 360
RuleWidth == 8
SecondMs == 1000

PRESETS ==
    [GOL      |-> [mode |-> "2D", birth |-> {3},    survival |-> {2, 3}],
     HIGHLIFE |-> [mode |-> "2D", birth |-> {3, 6}, survival |-> {2, 3}],
     MAZE     |-> [mode |-> "2D", birth |-> {3},    survival |-> {1, 2, 3, 4, 5}],
     RULE30   |-> [mode |-> "1D", rule |-> 30],
     RULE110  |-> [mode |-> "1D", rule |-> 110],
     RULE90   |-> [mode |-> "1D", rule |-> 90]]

InitialConfig ==
    [mode |-> "2D", rule1D |-> 110, birth2D |-> {3}, survival2D |-> {2, 3},
     resolution |-> 8, speed |-> 15, hue |-> 180, colorMode |-> "Age",
     trails |-> 30]

----------------------------------------------------------------------------
(* Utilities *)

Min(a, b) == IF a < b THEN a ELSE b

\* Math.ceil(a / b) for integers a >= 0, b > 0
Ceil(a, b) == (a + b - 1) \div b

Reverse(s) == [i \in 1..Len(s) |-> s[Len(s) + 1 - i]]

\* Number.prototype.toString(2) of a non-negative integer: its binary digits,
\* most significant first, as characters
RECURSIVE ToString2(_)
ToString2(n) ==
    IF n < 2 THEN << IF n = 1 THEN "1" ELSE "0" >>
    ELSE ToString2(n \div 2) \o << IF n % 2 = 1 THEN "1" ELSE "0" >>

\* String.prototype.padStart(width, ch): pads on the left, never truncates
RECURSIVE PadStart(_, _, _)
PadStart(s, width, ch) ==
    IF Len(s) >= width THEN s ELSE PadStart(<<ch>> \o s, width, ch)

\* Number(ch) of a one-digit string
ToNumber(ch) == IF ch = "1" THEN 1 ELSE 0

\* getRuleBits without the reverse(): most significant bit first
getRuleBitsNoReverse(rule) ==
    LET digits == PadStart(ToString2(rule), RuleWidth, "0")
    IN  [k \in 1..Len(digits) |-> ToNumber(digits[k])]

getRuleBits(rule) ==
    LET digits == Reverse(PadStart(ToString2(rule), RuleWidth, "0"))
    IN  [k \in 1..Len(digits) |-> ToNumber(digits[k])]

----------------------------------------------------------------------------
(* initGrid *)

\* the column count rounded down instead of up
ColsFloor(w, res) == w \div res

Cols(w, res) == Ceil(w, res)
Rows(h, res) == Ceil(h, res)

\* firstRow with the live cell at Math.ceil(cols / 2)
FirstRowCeil(cols) ==
    LET mid == (cols + 1) \div 2
    IN  [i \in 1..(IF mid + 1 > cols THEN mid + 1 ELSE cols) |->
            IF i = mid + 1 THEN 1 ELSE 0]

\* new Array(cols).fill(0) with firstRow[Math.floor(cols / 2)] = 1; an
\* assignment past the end of a JavaScript array extends it, so cols = 0
\* yields [1]
FirstRow(cols) ==
    LET mid == cols \div 2
    IN  [i \in 1..(IF mid + 1 > cols THEN mid + 1 ELSE cols) |->
            IF i = mid + 1 THEN 1 ELSE 0]

\* ctx.clearRect over the whole window
Blank == [fade |-> 0, res |-> 0, cells |-> {}]

\* initGrid pushing the first row onto the history it finds
initGridKeepsRows(mode, res, seed) ==
    LET cols == Cols(innerWidth', res)
        rows == Rows(innerHeight', res)
    IN  /\ IF mode = "2D"
           THEN /\ seed \in [1..rows -> [1..cols -> {0, 1}]]
                /\ gridRef' = [y \in 1..rows |-> [x \in 1..cols |-> seed[y][x]]]
                /\ lived' = gridRef'
                /\ UNCHANGED <<historyRef, generated>>
           ELSE /\ historyRef' = Append(historyRef, FirstRow(cols))
                /\ generated' = historyRef'
                /\ UNCHANGED <<gridRef, lived>>
        /\ generation' = 0
        /\ stepCalls' = 0
        /\ canvas' = Blank

\* seed[y][x] is the outcome of (Math.random() > 0.85 ? 1 : 0) for cell (x, y)
initGrid(mode, res, seed) ==
    LET cols == Cols(innerWidth', res)
        rows == Rows(innerHeight', res)
    IN  /\ IF mode = "2D"
           THEN /\ seed \in [1..rows -> [1..cols -> {0, 1}]]
                /\ gridRef' = [y \in 1..rows |-> [x \in 1..cols |-> seed[y][x]]]
                /\ lived' = gridRef'
                /\ UNCHANGED <<historyRef, generated>>
           ELSE /\ historyRef' = << FirstRow(cols) >>
                /\ generated' = historyRef'
                /\ UNCHANGED <<gridRef, lived>>
        /\ generation' = 0
        /\ stepCalls' = 0
        /\ canvas' = Blank

----------------------------------------------------------------------------
(* step *)

Offsets == {<<i, j>> \in (-1..1) \X (-1..1) : ~(i = 0 /\ j = 0)}

\* the neighbour loop with positions beyond the edges skipped, not wrapped
NeighborsNoWrap(g, y, x) ==
    LET rows == Len(g)
        cols == Len(g[1])
    IN  Cardinality({o \in Offsets :
            /\ y + o[1] \in 0..(rows - 1)
            /\ x + o[2] \in 0..(cols - 1)
            /\ g[y + o[1] + 1][x + o[2] + 1] > 0})

\* the neighbour loop of step: y, x are 0-based
Neighbors(g, y, x) ==
    LET rows == Len(g)
        cols == Len(g[1])
    IN  Cardinality({o \in Offsets :
            g[((y + o[1] + rows) % rows) + 1][((x + o[2] + cols) % cols) + 1] > 0})

\* the birth/survival rule with the age left uncapped
NextAgeUncapped(age, neighbors, birth, survival) ==
    IF age > 0
    THEN IF neighbors \in survival THEN age + 1 ELSE 0
    ELSE IF neighbors \in birth THEN 1 ELSE 0

NextAge(age, neighbors, birth, survival) ==
    IF age > 0
    THEN IF neighbors \in survival THEN Min(age + 1, AgeCap) ELSE 0
    ELSE IF neighbors \in birth THEN 1 ELSE 0

\* the cells from linear index k on updated one after the other in the grid
\* itself, so that later cells read ages already written in this step
RECURSIVE InPlaceFrom(_, _, _, _)
InPlaceFrom(g, k, birth, survival) ==
    LET cols == Len(g[1])
        y == k \div cols
        x == k % cols
    IN  IF k >= Len(g) * cols THEN g
        ELSE InPlaceFrom(
                [g EXCEPT ![y + 1][x + 1] =
                    NextAge(g[y + 1][x + 1], Neighbors(g, y, x), birth, survival)],
                k + 1, birth, survival)

\* step's 2D branch writing into gridRef.current instead of a new grid
Step2DInPlace(g, birth, survival) ==
    IF Len(g) = 0 THEN g ELSE InPlaceFrom(g, 0, birth, survival)

Step2D(g, birth, survival) ==
    [y \in 1..Len(g) |->
        [x \in 1..Len(g[y]) |->
            NextAge(g[y][x], Neighbors(g, y - 1, x - 1), birth, survival)]]

\* the next row with cells beyond the ends read as dead instead of wrapped
NextRowNoWrap(current, rule) ==
    LET bits == getRuleBits(rule)
        cols == Len(current)
    IN  [k \in 1..cols |->
            LET left == IF k = 1 THEN 0 ELSE current[k - 1]
                center == current[k]
                right == IF k = cols THEN 0 ELSE current[k + 1]
                patternIndex == 4 * left + 2 * center + right
            IN  bits[patternIndex + 1]]

NextRow(current, rule) ==
    LET bits == getRuleBits(rule)
        cols == Len(current)
    IN  [k \in 1..cols |->
            LET i == k - 1
                left == current[((i - 1 + cols) % cols) + 1]
                center == current[i + 1]
                right == current[((i + 1) % cols) + 1]
                patternIndex == 4 * left + 2 * center + right
            IN  bits[patternIndex + 1]]

\* push with the shift taken one row early (>= for >)
PushShiftEarly(history, next, maxRows) ==
    LET pushed == Append(history, next)
    IN  IF Len(pushed) >= maxRows THEN Tail(pushed) ELSE pushed

\* historyRef.current.push(next), then shift() if longer than maxRows
PushShift(history, next, maxRows) ==
    LET pushed == Append(history, next)
    IN  IF Len(pushed) > maxRows THEN Tail(pushed) ELSE pushed

\* the consecutive-generations-alive count of every cell after a 2D step
LivedAfter(old, new, l) ==
    [y \in 1..Len(new) |->
        [x \in 1..Len(new[y]) |->
            IF new[y][x] > 0
            THEN (IF old[y][x] > 0 THEN l[y][x] + 1 ELSE 1)
            ELSE 0]]

\* step with the cycle hue advanced without the % 360
stepNoWrap(cfg) ==
    /\ stepCalls' = stepCalls + 1
    /\ IF cfg.mode = "2D"
       THEN IF Len(gridRef) = 0
            THEN UNCHANGED <<storeVars, generated, lived>>
            ELSE /\ gridRef' = Step2D(gridRef, cfg.birth2D, cfg.survival2D)
                 /\ lived' = LivedAfter(gridRef, gridRef', lived)
                 /\ generation' = generation + 1
                 /\ cycleHueRef' = cycleHueRef + 1
                 /\ UNCHANGED <<historyRef, generated>>
       ELSE /\ LET next == NextRow(historyRef[Len(historyRef)], cfg.rule1D)
               IN  /\ historyRef' = PushShift(historyRef, next,
                                              Ceil(innerHeight, cfg.resolution))
                   /\ generated' = Append(generated, next)
            /\ generation' = generation + 1
            /\ cycleHueRef' = cycleHueRef + 1
            /\ UNCHANGED <<gridRef, lived>>

\* step with the 1D branch's setGeneration(g => g + 1) left out
stepSkipsCount1D(cfg) ==
    /\ stepCalls' = stepCalls + 1
    /\ IF cfg.mode = "2D"
       THEN IF Len(gridRef) = 0
            THEN UNCHANGED <<storeVars, generated, lived>>
            ELSE /\ gridRef' = Step2D(gridRef, cfg.birth2D, cfg.survival2D)
                 /\ lived' = LivedAfter(gridRef, gridRef', lived)
                 /\ generation' = generation + 1
                 /\ cycleHueRef' = (cycleHueRef + 1) % HueCycle
                 /\ UNCHANGED <<historyRef, generated>>
       ELSE /\ LET next == NextRow(historyRef[Len(historyRef)], cfg.rule1D)
               IN  /\ historyRef' = PushShift(historyRef, next,
                                              Ceil(innerHeight, cfg.resolution))
                   /\ generated' = Append(generated, next)
            /\ cycleHueRef' = (cycleHueRef + 1) % HueCycle
            /\ UNCHANGED <<gridRef, lived, generation>>

\* step() of the render whose config is cfg, on a 1D history that is not
\* empty
step(cfg) ==
    /\ stepCalls' = stepCalls + 1
    /\ IF cfg.mode = "2D"
       THEN IF Len(gridRef) = 0
            THEN UNCHANGED <<storeVars, generated, lived>>
            ELSE /\ gridRef' = Step2D(gridRef, cfg.birth2D, cfg.survival2D)
                 /\ lived' = LivedAfter(gridRef, gridRef', lived)
                 /\ generation' = generation + 1
                 /\ cycleHueRef' = (cycleHueRef + 1) % HueCycle
                 /\ UNCHANGED <<historyRef, generated>>
       ELSE /\ LET next == NextRow(historyRef[Len(historyRef)], cfg.rule1D)
               IN  /\ historyRef' = PushShift(historyRef, next,
                                              Ceil(innerHeight, cfg.resolution))
                   /\ generated' = Append(generated, next)
            /\ generation' = generation + 1
            /\ cycleHueRef' = (cycleHueRef + 1) % HueCycle
            /\ UNCHANGED <<gridRef, lived>>

----------------------------------------------------------------------------
(* Colours and drawing *)

\* the remainder operator of JavaScript: the sign of the dividend
JsRem(a, b) == IF a >= 0 THEN a % b ELSE -((-a) % b)

\* getCellColor: the hsla() it returns, alpha in hundredths
getCellColor(cfg, cycleHue, age, neighbors) ==
    LET h == CASE cfg.colorMode = "Age" -> JsRem(cfg.hue + age * 8, HueCycle)
               [] cfg.colorMode = "Density" -> JsRem(cfg.hue - neighbors * 25, HueCycle)
               [] cfg.colorMode = "Cycle" -> cycleHue
               [] OTHER -> cfg.hue
        l == CASE cfg.colorMode = "Age" ->
                    (IF age = 1 THEN 85 ELSE IF 70 - age > 40 THEN 70 - age ELSE 40)
               [] cfg.colorMode = "Density" -> 40 + neighbors * 5
               [] OTHER -> 60
    IN  [h |-> h, s |-> 80, l |-> l, a |-> 90]

\* the squares draw fills, one per live cell; a 1D square has the hue
\* config.hue + y * 0.2 (kept in tenths) and the alpha y / history.length
Squares(cfg, grid, history, cycleHue) ==
    IF cfg.mode = "2D"
    THEN UNION {{[x |-> x - 1, y |-> y - 1,
                  fill |-> getCellColor(cfg, cycleHue, grid[y][x],
                              IF cfg.colorMode = "Density"
                              THEN Neighbors(grid, y - 1, x - 1) ELSE 0)] :
                    x \in {c \in 1..Len(grid[y]) : grid[y][c] > 0}} :
                y \in 1..Len(grid)}
    ELSE UNION {{[x |-> x - 1, y |-> y - 1,
                  fill |-> [h10 |-> 10 * cfg.hue + 2 * (y - 1), s |-> 80, l |-> 60,
                            a |-> <<y - 1, Len(history)>>]] :
                    x \in {c \in 1..Len(history[y]) : history[y][c] = 1}} :
                y \in 1..Len(history)}

\* draw() of the render whose config is cfg, after the step of the same tick
draw(cfg) ==
    canvas' = [fade |-> 100 - cfg.trails, res |-> cfg.resolution,
               cells |-> Squares(cfg, gridRef', historyRef', cycleHueRef')]

----------------------------------------------------------------------------
(* The animation loop *)

\* the handle requestAnimationFrame returns: one no queued callback has.
\* (The browser never returns a handle twice; the code keeps a handle only in
\* requestRef and overwrites it with every handle it is given, so a handle
\* that is not queued is one nothing refers to any more.)
NextHandle(queue) ==
    LET used == {cb.id : cb \in queue}
    IN  CHOOSE n \in 1..(Cardinality(used) + 1) :
            n \notin used /\ \A m \in 1..(n - 1) : m \in used

requestAnimationFrame(queue, cfg, running) ==
    queue \cup {[id |-> NextHandle(queue), config |-> cfg, isRunning |-> running]}

\* cancelling a handle no queued callback has changes nothing
cancelAnimationFrame(queue, handle) == {cb \in queue : cb.id # handle}

\* the animation effect without the cleanup of the render before
LoopEffectNoCleanup(cfg, running) ==
    /\ requestRef' = NextHandle(pending)
    /\ pending' = requestAnimationFrame(pending, cfg, running)

\* the animation effect of a render with the values cfg and running: the
\* cleanup of the effect of the render before, then the new request
LoopEffect(cfg, running) ==
    LET cleaned == cancelAnimationFrame(pending, requestRef)
    IN  /\ requestRef' = NextHandle(cleaned)
        /\ pending' = requestAnimationFrame(cleaned, cfg, running)

\* the threshold test with >= for >
DueInclusive(cfg, time) == (time - lastUpdateRef) * (cfg.speed + 1) >= SecondMs

\* time - lastUpdateRef.current > 1000 / (config.speed + 1), without division
Due(cfg, time) == (time - lastUpdateRef) * (cfg.speed + 1) > SecondMs

\* animate with a draw that advances the cycle hue on every frame
animateDrawCyclesHue(cb, time) ==
    /\ cb \in pending
    /\ time >= lastUpdateRef
    /\ LET stepping == cb.isRunning /\ Due(cb.config, time)
           rest == pending \ {cb}
       IN  IF stepping /\ cb.config.mode = "1D" /\ Len(historyRef) = 0
           THEN /\ phase' = "crashed"
                /\ pending' = rest
                /\ drawCalls' = 0
                /\ UNCHANGED <<storeVars, stepCalls, generated, lived,
                               lastUpdateRef, requestRef, canvas>>
           ELSE /\ IF stepping
                   THEN /\ step(cb.config)
                        /\ lastUpdateRef' = time
                   ELSE /\ cycleHueRef' = (cycleHueRef + 1) % HueCycle
                        /\ UNCHANGED <<gridRef, historyRef, generation, stepCalls,
                                       generated, lived, lastUpdateRef>>
                /\ draw(cb.config)
                /\ drawCalls' = 1
                /\ requestRef' = NextHandle(rest)
                /\ pending' = requestAnimationFrame(rest, cb.config, cb.isRunning)
                /\ UNCHANGED phase
    /\ UNCHANGED <<uiVars, viewVars>>

\* the browser takes cb off its queue and runs it with the frame's time
animate(cb, time) ==
    /\ cb \in pending
    /\ time >= lastUpdateRef
    /\ LET stepping == cb.isRunning /\ Due(cb.config, time)
           rest == pending \ {cb}
       IN  IF stepping /\ cb.config.mode = "1D" /\ Len(historyRef) = 0
           THEN \* current is undefined: current.length throws, the callback
                \* ends before it draws and re-registers itself
                /\ phase' = "crashed"
                /\ pending' = rest
                /\ drawCalls' = 0
                /\ UNCHANGED <<storeVars, stepCalls, generated, lived,
                               lastUpdateRef, requestRef, canvas>>
           ELSE /\ IF stepping
                   THEN /\ step(cb.config)
                        /\ lastUpdateRef' = time
                   ELSE UNCHANGED <<storeVars, stepCalls, generated, lived,
                                    lastUpdateRef>>
                /\ draw(cb.config)
                /\ drawCalls' = 1
                /\ requestRef' = NextHandle(rest)
                /\ pending' = requestAnimationFrame(rest, cb.config, cb.isRunning)
                /\ UNCHANGED phase
    /\ UNCHANGED <<uiVars, viewVars>>

----------------------------------------------------------------------------
(* Mounting: the [mode, resolution] effect runs initGrid and registers the  *)
(* resize listener, then the animation effect requests the first frame     *)
(* (LoopEffect with nothing to clean up)                                   *)

Mount(seed) ==
    /\ phase = "constructed"
    /\ phase' = "mounted"
    /\ UNCHANGED viewVars
    /\ initGrid(config.mode, config.resolution, seed)
    /\ LoopEffect(config, isRunning)
    /\ UNCHANGED <<uiVars, lastUpdateRef, cycleHueRef, drawCalls>>

\* teardown whose cleanup leaves the request alone
UnmountKeepsLoop ==
    /\ phase = "mounted"
    /\ phase' = "unmounted"
    /\ UNCHANGED <<uiVars, storeVars, ghostVars, viewVars, lastUpdateRef,
                   requestRef, pending, canvas, drawCalls>>

\* teardown: the effects' cleanups remove the listener and cancel the tick
Unmount ==
    /\ phase = "mounted"
    /\ phase' = "unmounted"
    /\ pending' = cancelAnimationFrame(pending, requestRef)
    /\ UNCHANGED <<uiVars, storeVars, ghostVars, viewVars, lastUpdateRef,
                   requestRef, canvas, drawCalls>>

\* the window takes a new size and the resize listener runs
handleResize(w, h, seed) ==
    /\ phase = "mounted"
    /\ innerWidth' = w
    /\ innerHeight' = h
    /\ initGrid(config.mode, config.resolution, seed)
    /\ UNCHANGED <<uiVars, lastUpdateRef, cycleHueRef, phase, loopVars, drawCalls>>

----------------------------------------------------------------------------
(* Pointer input *)

\* handleCanvasInteraction with the indices clamped into the grid
handleCanvasInteractionClamped(px, py) ==
    /\ phase = "mounted"
    /\ LET rows == Len(gridRef)
           cols == IF rows = 0 THEN 0 ELSE Len(gridRef[1])
           fx == px \div config.resolution
           fy == py \div config.resolution
           x == IF fx < 0 THEN 0 ELSE IF fx >= cols THEN cols - 1 ELSE fx
           y == IF fy < 0 THEN 0 ELSE IF fy >= rows THEN rows - 1 ELSE fy
       IN  IF config.mode # "1D" /\ rows > 0 /\ cols > 0
           THEN /\ gridRef' = [gridRef EXCEPT ![y + 1][x + 1] =
                                   IF @ > 0 THEN 0 ELSE 1]
                /\ lived' = [lived EXCEPT ![y + 1][x + 1] =
                                   IF gridRef[y + 1][x + 1] > 0 THEN 0 ELSE 1]
                /\ activePreset' = "null"
           ELSE UNCHANGED <<gridRef, lived, activePreset>>
    /\ UNCHANGED <<config, isRunning, historyRef, generation, cycleHueRef,
                   lastUpdateRef, viewVars, phase, stepCalls, generated,
                   loopVars, canvas, drawCalls>>

\* handleCanvasInteraction painting only: a live cell stays alive
handleCanvasInteractionPaintOnly(px, py) ==
    /\ phase = "mounted"
    /\ LET x == px \div config.resolution
           y == py \div config.resolution
       IN  IF /\ config.mode # "1D"
              /\ y >= 0 /\ y < Len(gridRef)
              /\ x >= 0 /\ x < Len(gridRef[y + 1])
           THEN /\ gridRef' = [gridRef EXCEPT ![y + 1][x + 1] = 1]
                /\ lived' = [lived EXCEPT ![y + 1][x + 1] = 1]
                /\ activePreset' = "null"
           ELSE UNCHANGED <<gridRef, lived, activePreset>>
    /\ UNCHANGED <<config, isRunning, historyRef, generation, cycleHueRef,
                   lastUpdateRef, viewVars, phase, stepCalls, generated,
                   loopVars, canvas, drawCalls>>

\* px, py: clientX - rect.left and clientY - rect.top
handleCanvasInteraction(px, py) ==
    /\ phase = "mounted"
    /\ LET x == px \div config.resolution
           y == py \div config.resolution
       IN  IF /\ config.mode # "1D"
              /\ y >= 0 /\ y < Len(gridRef)
              /\ x >= 0 /\ x < Len(gridRef[y + 1])
           THEN /\ gridRef' = [gridRef EXCEPT ![y + 1][x + 1] =
                                   IF @ > 0 THEN 0 ELSE 1]
                /\ lived' = [lived EXCEPT ![y + 1][x + 1] =
                                   IF gridRef[y + 1][x + 1] > 0 THEN 0 ELSE 1]
                /\ activePreset' = "null"
           ELSE UNCHANGED <<gridRef, lived, activePreset>>
    /\ UNCHANGED <<config, isRunning, historyRef, generation, cycleHueRef,
                   lastUpdateRef, viewVars, phase, stepCalls, generated,
                   loopVars, canvas, drawCalls>>

----------------------------------------------------------------------------
(* Control panel *)

\* selectPreset merging the preset into the initial configuration instead of
\* the live one
selectPresetFromDefaults(key, seed) ==
    /\ phase = "mounted"
    /\ LET p == PRESETS[key]
       IN  /\ config' = IF p.mode = "2D"
                        THEN [InitialConfig EXCEPT !.mode = p.mode,
                                                   !.birth2D = p.birth,
                                                   !.survival2D = p.survival]
                        ELSE [InitialConfig EXCEPT !.mode = p.mode, !.rule1D = p.rule]
           /\ activePreset' = key
           /\ UNCHANGED viewVars
           /\ initGrid(p.mode, config.resolution, seed)
    /\ LoopEffect(config', isRunning)
    /\ UNCHANGED <<isRunning, lastUpdateRef, cycleHueRef, phase, drawCalls>>

selectPreset(key, seed) ==
    /\ phase = "mounted"
    /\ LET p == PRESETS[key]
       IN  /\ config' = IF p.mode = "2D"
                        THEN [config EXCEPT !.mode = p.mode,
                                            !.birth2D = p.birth,
                                            !.survival2D = p.survival]
                        ELSE [config EXCEPT !.mode = p.mode, !.rule1D = p.rule]
           /\ activePreset' = key
           /\ UNCHANGED viewVars
           /\ initGrid(p.mode, config.resolution, seed)
    /\ LoopEffect(config', isRunning)
    /\ UNCHANGED <<isRunning, lastUpdateRef, cycleHueRef, phase, drawCalls>>

\* the FREEZE/EVOLVE button restarting the clock
toggleRunningRestarts ==
    /\ phase = "mounted"
    /\ isRunning' = ~isRunning
    /\ lastUpdateRef' = 0
    /\ LoopEffect(config, isRunning')
    /\ UNCHANGED <<config, activePreset, storeVars, ghostVars, viewVars,
                   phase, canvas, drawCalls>>

toggleRunning ==
    /\ phase = "mounted"
    /\ isRunning' = ~isRunning
    /\ LoopEffect(config, isRunning')
    /\ UNCHANGED <<config, activePreset, storeVars, ghostVars, viewVars,
                   lastUpdateRef, phase, canvas, drawCalls>>

resetSeed(seed) ==
    /\ phase = "mounted"
    /\ UNCHANGED viewVars
    /\ initGrid(config.mode, config.resolution, seed)
    /\ UNCHANGED <<uiVars, lastUpdateRef, cycleHueRef, phase, loopVars, drawCalls>>

setResolution(res, seed) ==
    /\ phase = "mounted"
    /\ config' = [config EXCEPT !.resolution = res]
    /\ UNCHANGED viewVars
    /\ initGrid(config.mode, res, seed)
    /\ LoopEffect(config', isRunning)
    /\ UNCHANGED <<activePreset, isRunning, lastUpdateRef, cycleHueRef, phase,
                   drawCalls>>

\* the mode button without initGrid, neither its own call nor the effect's
setModeKeepsStore(m, seed) ==
    /\ phase = "mounted"
    /\ config' = [config EXCEPT !.mode = m]
    /\ activePreset' = "null"
    /\ UNCHANGED viewVars
    /\ UNCHANGED <<gridRef, historyRef, generation, stepCalls, generated, lived, canvas>>
    /\ LoopEffect(config', isRunning)
    /\ UNCHANGED <<isRunning, lastUpdateRef, cycleHueRef, phase, drawCalls>>

setMode(m, seed) ==
    /\ phase = "mounted"
    /\ config' = [config EXCEPT !.mode = m]
    /\ activePreset' = "null"
    /\ UNCHANGED viewVars
    /\ initGrid(m, config.resolution, seed)
    /\ LoopEffect(config', isRunning)
    /\ UNCHANGED <<isRunning, lastUpdateRef, cycleHueRef, phase, drawCalls>>

\* setConfig with the animation effect not depending on config: the request
\* of the render before stays queued
setConfigStale(c) ==
    /\ phase = "mounted"
    /\ config' = c
    /\ UNCHANGED <<activePreset, isRunning, storeVars, ghostVars, viewVars,
                   lastUpdateRef, phase, canvas, drawCalls, loopVars>>

\* a control that only replaces the configuration: the new object re-runs the
\* animation effect
setConfig(c) ==
    /\ phase = "mounted"
    /\ config' = c
    /\ LoopEffect(c, isRunning)
    /\ UNCHANGED <<activePreset, isRunning, storeVars, ghostVars, viewVars,
                   lastUpdateRef, phase, canvas, drawCalls>>

setSpeed(s) == setConfig([config EXCEPT !.speed = s])

setColorMode(c) == setConfig([config EXCEPT !.colorMode = c])

setHue(h) == setConfig([config EXCEPT !.hue = h])

setTrails(t) == setConfig([config EXCEPT !.trails = t])

\* a control that replaces the configuration and clears the active preset
setRuleConfig(c) ==
    /\ phase = "mounted"
    /\ config' = c
    /\ activePreset' = "null"
    /\ LoopEffect(c, isRunning)
    /\ UNCHANGED <<isRunning, storeVars, ghostVars, viewVars, lastUpdateRef, phase,
                   canvas, drawCalls>>

\* the rule slider is rendered in 1D mode only
setRule1D(r) ==
    /\ config.mode = "1D"
    /\ setRuleConfig([config EXCEPT !.rule1D = r])

Toggled(set, n) == IF n \in set THEN set \ {n} ELSE set \cup {n}

\* the birth and survival buttons are rendered in 2D mode only
toggleBirth(n) ==
    /\ config.mode # "1D"
    /\ setRuleConfig([config EXCEPT !.birth2D = Toggled(@, n)])

toggleSurvival(n) ==
    /\ config.mode # "1D"
    /\ setRuleConfig([config EXCEPT !.survival2D = Toggled(@, n)])

----------------------------------------------------------------------------
(* The state after construction, for a window of w x h pixels *)

Constructed(w, h) ==
    /\ config = InitialConfig
    /\ activePreset = "GOL"
    /\ isRunning = TRUE
    /\ generation = 0
    /\ gridRef = <<>>
    /\ historyRef = <<>>
    /\ lastUpdateRef = 0
    /\ cycleHueRef = 0
    /\ innerWidth = w
    /\ innerHeight = h
    /\ phase = "constructed"
    /\ requestRef = 0
    /\ pending = {}
    /\ canvas = Blank
    /\ drawCalls = 0
    /\ stepCalls = 0
    /\ generated = <<>>
    /\ lived = <<>>

\* the outcomes of the Math.random() draws of one initGrid
Draws(mode, w, h, res) ==
    IF mode = "2D"
    THEN [1..Rows(h, res) -> [1..Cols(w, res) -> {0, 1}]]
    ELSE {<<>>}

----------------------------------------------------------------------------
(* Input domains shared by the specifications *)

\* the initGrid draws in which every cell comes out the same
UniformDraws(mode, w, h, res) ==
    IF mode = "2D"
    THEN {[y \in 1..Rows(h, res) |-> [x \in 1..Cols(w, res) |-> b]] : b \in {0, 1}}
    ELSE {<<>>}

\* the initGrid draw in which no cell comes out alive
DeadDraws(mode, w, h, res) ==
    IF mode = "2D"
    THEN {[y \in 1..Rows(h, res) |-> [x \in 1..Cols(w, res) |-> 0]]}
    ELSE {<<>>}

Modes == {"1D", "2D"}

\* a tick d ms after the last accepted step, within the first maxTime ms
TickAfter(d, maxTime) ==
    /\ lastUpdateRef + d <= maxTime
    /\ \E cb \in pending : animate(cb, lastUpdateRef + d)

----------------------------------------------------------------------------
(* Spec: every operation, both modes, in a window 12 pixels wide and 12 or *)
(* 0 pixels high at the initial resolution: a grid of 2 x 2 cells or of no *)
(* rows, a history of rows 2 cells wide.                                   *)

MaxTicks == 2

Heights == {0, 12}
Speeds == {9, 15}
ColorModes == {"Age", "Cycle"}
Positions == {<<-3, 5>>, <<5, -3>>, <<30, 5>>, <<5, 30>>, <<5, 5>>, <<13, 5>>, <<5, 13>>}

Init == \E h \in Heights : Constructed(12, h)

Next ==
    \/ \E seed \in Draws(config.mode, innerWidth, innerHeight, config.resolution) :
            Mount(seed)
    \/ Unmount
    \/ \E h \in Heights :
            \E seed \in Draws(config.mode, innerWidth, h, config.resolution) :
                handleResize(innerWidth, h, seed)
    \/ TickAfter(100, MaxTicks * 100)
    \/ \E p \in Positions : handleCanvasInteraction(p[1], p[2])
    \/ toggleRunning
    \/ \E seed \in Draws(config.mode, innerWidth, innerHeight, config.resolution) :
            resetSeed(seed)
    \/ \E m \in Modes :
            \E seed \in Draws(m, innerWidth, innerHeight, config.resolution) :
                setMode(m, seed)
    \/ \E s \in Speeds : setSpeed(s)
    \/ \E c \in ColorModes : setColorMode(c)

Spec == Init /\ [][Next]_vars

----------------------------------------------------------------------------
(* C1, as stated: the generation counter is 0 after initGrid and equals    *)
(* the number of calls of step since, whatever the mode and the grid.      *)
C1_CounterCountsEveryCall == generation = stepCalls

(* C1, amended: the generation counter is 0 after initGrid and equals the  *)
(* number of calls of step since, in both modes, except that in 2D mode on *)
(* a grid of no rows step returns before it counts and the counter stays   *)
(* 0; no other operation changes it.                                       *)
C1_GenerationCounter ==
    IF config.mode = "2D" /\ Len(gridRef) = 0
    THEN generation = 0
    ELSE generation = stepCalls

C1_Witness ==
    /\ config.mode = "1D"
    /\ stepCalls = 2
    /\ generation = 2
    /\ ~isRunning
    /\ config.colorMode = "Cycle"

----------------------------------------------------------------------------
(* Pointer positions and the grid *)

\* the cell a pointer position falls on: column and row, 0-based
CellOf(px, py) ==
    [col |-> px \div config.resolution, row |-> py \div config.resolution]

InsideGrid(px, py) ==
    LET c == CellOf(px, py)
    IN  /\ c.row \in 0..(Len(gridRef) - 1)
        /\ c.col \in 0..(Len(gridRef[c.row + 1]) - 1)

(* C9: a pointer event whose position maps to a row or column index        *)
(* outside the grid (negative, or not below the row or column count)       *)
(* leaves the grid, the history, the generation counter and the cycle hue  *)
(* unchanged.                                                              *)
C9_OutOfBoundsIgnored ==
    [][\A p \in Positions :
          (handleCanvasInteraction(p[1], p[2]) /\ ~InsideGrid(p[1], p[2]))
              => UNCHANGED <<gridRef, historyRef, generation, cycleHueRef>>]_vars

\* a running 2D grid with live cells, and pointer positions left of, above,
\* right of and below it
C9_Witness ==
    /\ phase = "mounted"
    /\ config.mode = "2D"
    /\ generation = 1
    /\ Len(gridRef) = 2
    /\ gridRef[1][1] > 0
    /\ \A p \in {<<-3, 5>>, <<5, -3>>, <<30, 5>>, <<5, 30>>} :
          p \in Positions /\ ~InsideGrid(p[1], p[2])

(* C10: in 2D mode a pointer event inside the grid changes exactly the     *)
(* cell at column floor(px / resolution), row floor(py / resolution): a    *)
(* dead cell gets age 1, a live cell of any age gets age 0; every other    *)
(* cell, the generation counter, the cycle hue and the last-step timestamp *)
(* stay, running or paused.  In 1D mode a pointer event changes nothing.   *)
C10_ToggleCell ==
    [][\A p \in Positions : LET px == p[1]  py == p[2] IN
          handleCanvasInteraction(px, py) =>
              IF config.mode = "1D"
              THEN UNCHANGED vars
              ELSE InsideGrid(px, py) =>
                     /\ Len(gridRef') = Len(gridRef)
                     /\ \A r \in 1..Len(gridRef) :
                           /\ Len(gridRef'[r]) = Len(gridRef[r])
                           /\ \A c \in 1..Len(gridRef[r]) :
                                 IF r = (py \div config.resolution) + 1
                                    /\ c = (px \div config.resolution) + 1
                                 THEN /\ gridRef[r][c] = 0 => gridRef'[r][c] = 1
                                      /\ gridRef[r][c] \in 1..AgeCap
                                            => gridRef'[r][c] = 0
                                 ELSE gridRef'[r][c] = gridRef[r][c]
                     /\ UNCHANGED <<generation, cycleHueRef, lastUpdateRef,
                                    isRunning>>]_vars

\* after two generations of the Game of Life on the 2 x 2 torus (where no
\* cell is ever born: every neighbour count is even) a cell of age 1 lies
\* beside a survivor of age 3, while paused
C10_Witness ==
    /\ config.mode = "2D"
    /\ ~isRunning
    /\ generation = 2
    /\ Len(gridRef) = 2
    /\ gridRef[1][1] = 1
    /\ gridRef[1][2] = 3

----------------------------------------------------------------------------
(* SpecHistory: the 1D history in a window 12 pixels wide and 0, 8 or 20   *)
(* pixels high, at resolutions 8 and 16: bounds of 0, 1, 2 and 3 rows.     *)

MaxHistoryTicks == 5

HistoryHeights == {0, 8, 20}
HistoryResolutions == {8, 16}
HistoryRules == {30, 110}

InitHistory == \E h \in HistoryHeights : Constructed(12, h)

NextHistory ==
    \/ \E seed \in DeadDraws(config.mode, innerWidth, innerHeight, config.resolution) :
            Mount(seed)
    \/ \E h \in HistoryHeights :
            \E seed \in DeadDraws(config.mode, innerWidth, h, config.resolution) :
                handleResize(innerWidth, h, seed)
    \/ TickAfter(100, MaxHistoryTicks * 100)
    \/ \E seed \in DeadDraws(config.mode, innerWidth, innerHeight, config.resolution) :
            resetSeed(seed)
    \/ \E res \in HistoryResolutions :
            \E seed \in DeadDraws(config.mode, innerWidth, innerHeight, res) :
                setResolution(res, seed)
    \/ \E m \in Modes :
            \E seed \in DeadDraws(m, innerWidth, innerHeight, config.resolution) :
                setMode(m, seed)
    \/ \E r \in HistoryRules : setRule1D(r)

SpecHistory == InitHistory /\ [][NextHistory]_vars

\* B: the history bound of the current window and resolution
HistoryBound == Ceil(innerHeight, config.resolution)

\* the n newest rows of s, oldest first
LastRows(s, n) == SubSeq(s, Len(s) - n + 1, Len(s))

(* C2, as stated: in 1D mode the history length is between 1 and B, and    *)
(* once more than B rows exist since the last initGrid the history is the  *)
(* B newest of them, oldest first.                                         *)
C2_HistoryWithinB ==
    config.mode = "1D" =>
        /\ Len(historyRef) >= 1
        /\ Len(historyRef) <= HistoryBound
        /\ Len(generated) > HistoryBound
              => historyRef = LastRows(generated, HistoryBound)

(* C2, amended: in 1D mode, with B' = max(B, 1), the history length is     *)
(* between 1 and B', and the history is the rows produced since the last   *)
(* initGrid if they are at most B', else the B' newest of them, oldest     *)
(* first.                                                                  *)
C2_HistoryBound ==
    config.mode = "1D" =>
        LET b == IF HistoryBound < 1 THEN 1 ELSE HistoryBound
        IN  /\ Len(historyRef) >= 1
            /\ Len(historyRef) <= b
            /\ historyRef = LastRows(generated, Min(Len(generated), b))

\* five rows produced under a bound of three: two evictions
C2_Witness ==
    /\ config.mode = "1D"
    /\ HistoryBound = 3
    /\ Len(generated) = 5
    /\ Len(historyRef) = 3
    /\ historyRef[1] # historyRef[3]

----------------------------------------------------------------------------
(* SpecAge: a 2D grid of 2 rows and 1 column (a window of 8 x 12 pixels)   *)
(* run for more than 100 generations.  On this torus a cell's 8 neighbour  *)
(* positions are the other cell 6 times and itself twice, so under the     *)
(* initial rule (survival {2, 3}) a lone live cell survives every step.    *)

MaxAgeTicks == 102

AgePositions == {<<5, 5>>, <<5, -3>>}

InitAge == Constructed(8, 12)

NextAgeSpec ==
    \/ \E seed \in Draws(config.mode, innerWidth, innerHeight, config.resolution) :
            Mount(seed)
    \/ TickAfter(100, MaxAgeTicks * 100)
    \/ \E p \in AgePositions : handleCanvasInteraction(p[1], p[2])
    \/ \E seed \in Draws(config.mode, innerWidth, innerHeight, config.resolution) :
            resetSeed(seed)

SpecAge == InitAge /\ [][NextAgeSpec]_vars

(* C3: the 2D grid is rectangular, every age is an integer in 0..100, and  *)
(* a cell alive for more than 100 consecutive generations has age 100.     *)
C3_AgeCap ==
    /\ \A r \in 1..Len(gridRef) : Len(gridRef[r]) = Len(gridRef[1])
    /\ \A r \in 1..Len(gridRef) : \A c \in 1..Len(gridRef[r]) :
          /\ gridRef[r][c] \in 0..AgeCap
          /\ lived[r][c] > AgeCap => gridRef[r][c] = AgeCap

\* a cell alive for 102 consecutive generations, at age 100
C3_Witness ==
    /\ Len(gridRef) = 2
    /\ \E r \in 1..2 : lived[r][1] = AgeCap + 2 /\ gridRef[r][1] = AgeCap

----------------------------------------------------------------------------
(* Spec2D: 2D steps on every grid of 2 or 3 rows and 3 columns (a window   *)
(* of 20 x 12 or 20 x 20 pixels) under birth and survival sets edited with *)
(* the count buttons.                                                      *)

Max2DTicks == 2

Counts2D == {2, 3, 4}

Heights2D == {12, 20}

Init2D == \E h \in Heights2D : Constructed(20, h)

Next2D ==
    \/ \E seed \in Draws(config.mode, innerWidth, innerHeight, config.resolution) :
            Mount(seed)
    \/ TickAfter(100, Max2DTicks * 100)
    \/ \E n \in Counts2D : toggleBirth(n)
    \/ \E n \in Counts2D : toggleSurvival(n)

Spec2D == Init2D /\ [][Next2D]_vars

\* the 8 Moore neighbours of the cell in row r, column c (1-based) of g on
\* the torus, as a list of positions, and how many of them are alive
MooreNeighbours(g, r, c) ==
    LET R == Len(g)
        C == Len(g[1])
        up == ((r - 2) % R) + 1
        down == (r % R) + 1
        left == ((c - 2) % C) + 1
        right == (c % C) + 1
    IN  << <<up, left>>, <<up, c>>, <<up, right>>,
           <<r, left>>,             <<r, right>>,
           <<down, left>>, <<down, c>>, <<down, right>> >>

LiveNeighbours(g, r, c) ==
    LET nb == MooreNeighbours(g, r, c)
    IN  Cardinality({k \in 1..8 : g[nb[k][1]][nb[k][2]] > 0})

(* C4: a 2D step replaces the whole generation at once: with n the number  *)
(* of the 8 toroidally wrapped Moore neighbours alive in the grid before   *)
(* the step, a live cell with n in the survival set gets min(age + 1,      *)
(* 100), a dead cell with n in the birth set gets 1, every other cell 0;   *)
(* the dimensions stay.                                                    *)
C4_GenerationalStep ==
    [][(config.mode = "2D" /\ generation' = generation + 1) =>
          /\ Len(gridRef') = Len(gridRef)
          /\ \A r \in 1..Len(gridRef) :
                /\ Len(gridRef'[r]) = Len(gridRef[r])
                /\ \A c \in 1..Len(gridRef[r]) :
                      LET age == gridRef[r][c]
                          n == LiveNeighbours(gridRef, r, c)
                      IN  gridRef'[r][c] =
                            CASE age > 0 /\ n \in config.survival2D ->
                                    IF age + 1 < 100 THEN age + 1 ELSE 100
                              [] age = 0 /\ n \in config.birth2D -> 1
                              [] OTHER -> 0]_vars

\* after two steps under edited rules: a survivor of both steps, a cell
\* born in the second, and a dead cell
C4_Witness ==
    /\ config.mode = "2D"
    /\ generation = 2
    /\ config.birth2D # {3}
    /\ config.survival2D # {2, 3}
    /\ \E c1, c2, c3 \in 1..3 :
          gridRef[1][c1] = 3 /\ gridRef[2][c2] = 1 /\ gridRef[1][c3] = 0

----------------------------------------------------------------------------
(* SpecRule: 1D steps under every rule number 0..255 on rows of 1 and 3    *)
(* cells (windows 4 and 20 pixels wide, 16 high: a bound of 2 rows).       *)

MaxRuleTicks == 2

RuleWidths == {4, 20}
RuleNumbers == 0..255

InitRule == \E w \in RuleWidths : Constructed(w, 16)

NextRule ==
    \/ \E seed \in DeadDraws(config.mode, innerWidth, innerHeight, config.resolution) :
            Mount(seed)
    \/ TickAfter(100, MaxRuleTicks * 100)
    \/ setMode("1D", <<>>)
    \/ \E r \in RuleNumbers : setRule1D(r)

SpecRule == InitRule /\ [][NextRule]_vars

\* bit k of r, counted from the least significant
Bit(r, k) == (r \div (2 ^ k)) % 2

(* C5: a 1D step appends a row as wide as the last row, whose cell i is    *)
(* bit ((left << 2) | (center << 1) | right) of the rule number, with      *)
(* left, center, right the cells (i - 1) mod W, i, (i + 1) mod W of the    *)
(* last row before the step; the earlier rows stay (but for the evicted    *)
(* oldest) and every cell of the history is 0 or 1.                        *)
C5_RuleStep ==
    [][(config.mode = "1D" /\ generation' = generation + 1) =>
          LET last == historyRef[Len(historyRef)]
              W == Len(last)
              new == historyRef'[Len(historyRef')]
          IN  /\ W >= 1
              /\ Len(new) = W
              /\ \A i \in 0..(W - 1) :
                    new[i + 1] = Bit(config.rule1D,
                                     4 * last[((i - 1) % W) + 1]
                                       + 2 * last[i + 1]
                                       + last[((i + 1) % W) + 1])
              /\ \/ historyRef' = Append(historyRef, new)
                 \/ historyRef' = Tail(Append(historyRef, new))
              /\ \A k \in 1..Len(historyRef') : \A c \in 1..Len(historyRef'[k]) :
                    historyRef'[k][c] \in {0, 1}]_vars

\* two steps of rule 110 on a row of 3 cells
C5_Witness ==
    /\ config.mode = "1D"
    /\ config.rule1D = 110
    /\ generation = 2
    /\ Len(historyRef) = 2
    /\ Len(historyRef[2]) = 3
    /\ historyRef[1] # historyRef[2]

(* C6: the rule bits of a rule number r in 0..255 are 8 bits, the k-th     *)
(* (k = 0..7) being floor(r / 2^k) mod 2; those of 30 are                  *)
(* 0,1,1,1,1,0,0,0 and those of 110 are 0,1,1,1,0,1,1,0.                   *)
C6_RuleBits ==
    LET bits == getRuleBits(config.rule1D)
    IN  /\ config.rule1D \in 0..255
        /\ Len(bits) = 8
        /\ \A k \in 0..7 : bits[k + 1] = (config.rule1D \div (2 ^ k)) % 2
        /\ config.rule1D = 30 => bits = <<0, 1, 1, 1, 1, 0, 0, 0>>
        /\ config.rule1D = 110 => bits = <<0, 1, 1, 1, 0, 1, 1, 0>>

\* rule 30 selected on the slider and applied by a step
C6_Witness ==
    /\ config.mode = "1D"
    /\ config.rule1D = 30
    /\ generation = 1
    /\ Len(historyRef[1]) = 3
    /\ historyRef[2] = <<1, 1, 1>>

----------------------------------------------------------------------------
(* SpecSierpinski: the 1D presets on a row of 15 cells (a window 120       *)
(* pixels wide) with a history bound of 8 or 9 rows (64 or 72 pixels       *)
(* high).  The rule number changes only through selectPreset, which runs   *)
(* initGrid, so the generation counter counts the steps taken under the    *)
(* current rule.                                                           *)

MaxSierpinskiTicks == 8

SierpinskiHeights == {64, 72}
Presets1D == {"RULE30", "RULE110", "RULE90"}

InitSierpinski == \E h \in SierpinskiHeights : Constructed(120, h)

NextSierpinski ==
    \/ \E seed \in DeadDraws(config.mode, innerWidth, innerHeight, config.resolution) :
            Mount(seed)
    \/ TickAfter(100, MaxSierpinskiTicks * 100)
    \/ \E key \in Presets1D : selectPreset(key, <<>>)
    \/ \E h \in SierpinskiHeights :
            \E seed \in DeadDraws(config.mode, innerWidth, h, config.resolution) :
                handleResize(innerWidth, h, seed)
    \/ toggleRunning

SpecSierpinski == InitSierpinski /\ [][NextSierpinski]_vars

\* the binomial coefficient, by Pascal's rule
RECURSIVE Binomial(_, _)
Binomial(n, k) ==
    IF k < 0 \/ k > n THEN 0
    ELSE IF k = 0 \/ k = n THEN 1
    ELSE Binomial(n - 1, k - 1) + Binomial(n - 1, k)

\* cell i (0-based) of row n of the Sierpinski triangle centred on index 7
SierpinskiCell(n, i) ==
    LET d == i - 7
    IN  IF /\ d <= n /\ -d <= n
           /\ (d + n) % 2 = 0
           /\ Binomial(n, (d + n) \div 2) % 2 = 1
        THEN 1 ELSE 0

(* C7: under rule 90 on a row of 15 cells with a history bound of at least *)
(* 8 rows, the newest row n steps after initGrid, n in 0..7, is row n of   *)
(* the Sierpinski triangle.                                                *)
C7_Sierpinski ==
    (/\ config.mode = "1D"
     /\ config.rule1D = 90
     /\ HistoryBound >= 8
     /\ generation \in 0..7
     /\ Len(historyRef[Len(historyRef)]) = 15)
        => \A i \in 0..14 :
              historyRef[Len(historyRef)][i + 1] = SierpinskiCell(generation, i)

\* row 7: the cells 0, 2, 4, ..., 14
C7_Witness ==
    /\ config.mode = "1D"
    /\ config.rule1D = 90
    /\ HistoryBound >= 8
    /\ generation = 7
    /\ Len(historyRef) = 8
    /\ historyRef[8] = <<1, 0, 1, 0, 1, 0, 1, 0, 1, 0, 1, 0, 1, 0, 1>>

----------------------------------------------------------------------------
(* SpecBlinker: the Game of Life on a grid of 5 rows and 5 or 6 columns (a *)
(* window of 40 x 40 or 48 x 40 pixels) that initGrid leaves empty, with   *)
(* cells painted by the pointer: the cells of columns 0, 1, 2 and 4 of row *)
(* 0 (columns 4, 0, 1 are adjacent across the edge when the grid has 5     *)
(* columns; the column through a cell of row 0 runs across the top and     *)
(* bottom edges).                                                          *)

MaxBlinkerTicks == 3

BlinkerWidths == {40, 48}
BlinkerPositions == {<<4, 4>>, <<12, 4>>, <<20, 4>>, <<36, 4>>}

InitBlinker == \E w \in BlinkerWidths : Constructed(w, 40)

NextBlinker ==
    \/ \E seed \in DeadDraws(config.mode, innerWidth, innerHeight, config.resolution) :
            Mount(seed)
    \/ TickAfter(100, MaxBlinkerTicks * 100)
    \/ \E p \in BlinkerPositions : handleCanvasInteraction(p[1], p[2])
    \/ toggleRunning

SpecBlinker == InitBlinker /\ [][NextBlinker]_vars

\* the positions (row, column, 1-based) of the live cells of g
Live(g) ==
    {p \in (1..Len(g)) \X (1..(IF Len(g) = 0 THEN 0 ELSE Len(g[1]))) :
        g[p[1]][p[2]] > 0}

\* three cells in a row, and in a column, through (r, c) on the torus of
\* R rows and C columns
Horizontal(R, C, r, c) == {<<r, ((c - 2) % C) + 1>>, <<r, c>>, <<r, (c % C) + 1>>}
Vertical(R, C, r, c) == {<<((r - 2) % R) + 1, c>>, <<r, c>>, <<(r % R) + 1, c>>}

(* C8: with birth {3} and survival {2, 3} on a torus of at least 5 x 5     *)
(* cells, a step takes the grid whose live cells are exactly three         *)
(* horizontally adjacent cells to the grid whose live cells are exactly    *)
(* the three vertically adjacent cells through the same centre, and back:  *)
(* the live set has period 2.                                              *)
C8_Blinker ==
    [][(/\ config.mode = "2D"
        /\ generation' = generation + 1
        /\ config.birth2D = {3}
        /\ config.survival2D = {2, 3}
        /\ Len(gridRef) >= 5
        /\ Len(gridRef[1]) >= 5) =>
          LET R == Len(gridRef)
              C == Len(gridRef[1])
          IN  \A r \in 1..R, c \in 1..C :
                /\ Live(gridRef) = Horizontal(R, C, r, c)
                      => Live(gridRef') = Vertical(R, C, r, c)
                /\ Live(gridRef) = Vertical(R, C, r, c)
                      => Live(gridRef') = Horizontal(R, C, r, c)]_vars

\* the blinker across the left and right edges after two steps: its centre
\* has age 3, its ends were born in the second step
C8_Witness ==
    /\ config.mode = "2D"
    /\ Len(gridRef) = 5
    /\ Len(gridRef[1]) = 5
    /\ Live(gridRef) = Horizontal(5, 5, 1, 1)
    /\ gridRef[1][1] = 3
    /\ gridRef[1][5] = 1
    /\ gridRef[1][2] = 1
    /\ generation >= 2

----------------------------------------------------------------------------
(* SpecInit: every caller of initGrid, in a window 8 pixels wide and 8 or  *)
(* 12 pixels high at resolutions 8 and 16: a grid of 1 or 2 rows and 1     *)
(* column, a history of at most 2 rows.                                    *)

MaxInitTicks == 3

InitHeights == {8, 12}
InitResolutions == {8, 16}
InitPresets == {"HIGHLIFE", "RULE30"}
InitPositions == {<<5, 5>>, <<5, 13>>}

InitInit == \E h \in InitHeights : Constructed(8, h)

NextInit ==
    \/ \E seed \in Draws(config.mode, innerWidth, innerHeight, config.resolution) :
            Mount(seed)
    \/ TickAfter(100, MaxInitTicks * 100)
    \/ \E p \in InitPositions : handleCanvasInteraction(p[1], p[2])
    \/ \E h \in InitHeights :
            \E seed \in Draws(config.mode, innerWidth, h, config.resolution) :
                handleResize(innerWidth, h, seed)
    \/ \E seed \in Draws(config.mode, innerWidth, innerHeight, config.resolution) :
            resetSeed(seed)
    \/ \E res \in InitResolutions :
            \E seed \in Draws(config.mode, innerWidth, innerHeight, res) :
                setResolution(res, seed)
    \/ \E m \in Modes :
            \E seed \in Draws(m, innerWidth, innerHeight, config.resolution) :
                setMode(m, seed)
    \/ \E key \in InitPresets :
            \E seed \in Draws(PRESETS[key].mode, innerWidth, innerHeight,
                              config.resolution) :
                selectPreset(key, seed)

SpecInit == InitInit /\ [][NextInit]_vars

\* the transitions in which initGrid is called: the draws of a 2D initGrid
\* are the grid it leaves
InitializeCalled ==
    \/ Mount(gridRef')
    \/ handleResize(innerWidth', innerHeight', gridRef')
    \/ resetSeed(gridRef')
    \/ \E res \in InitResolutions : setResolution(res, gridRef')
    \/ \E m \in Modes : setMode(m, gridRef')
    \/ \E key \in InitPresets : selectPreset(key, gridRef')

\* no cell of g has an age that only a step produces
NoAgedCell(g) == \A r \in 1..Len(g) : \A c \in 1..Len(g[r]) : g[r][c] \in {0, 1}

(* C11, as stated: after any call of initGrid neither the grid nor the     *)
(* history holds a row or a cell value produced before the call (no cell   *)
(* older than a new one, no row besides a first row), and the generation   *)
(* counter is 0.                                                           *)
C11_BothStoresDiscarded ==
    [][InitializeCalled =>
          /\ NoAgedCell(gridRef')
          /\ Len(historyRef') <= 1
          /\ generation' = 0]_vars

(* C11, amended: initGrid can be called in any reachable state and         *)
(* discards the store of the mode it is called for: after the call that    *)
(* store (the grid in 2D mode, the history in 1D mode) holds no row or     *)
(* cell value produced before the call, and the generation counter is 0;   *)
(* the other mode's store is left as it was.                               *)
C11_InitializeDiscards ==
    [][InitializeCalled =>
          /\ generation' = 0
          /\ IF config'.mode = "2D"
             THEN /\ NoAgedCell(gridRef')
                  /\ Len(gridRef') = Rows(innerHeight', config'.resolution)
                  /\ historyRef' = historyRef
             ELSE /\ Len(historyRef') = 1
                  /\ historyRef'[1] = FirstRow(Cols(innerWidth', config'.resolution))
                  /\ gridRef' = gridRef]_vars

\* in 2D mode right after an initGrid that followed two steps, the last of
\* them in 1D mode: the history still holds the two rows
C11_Witness ==
    /\ phase = "mounted"
    /\ config.mode = "2D"
    /\ generation = 0
    /\ stepCalls = 0
    /\ cycleHueRef = 2
    /\ lastUpdateRef > 0
    /\ Len(gridRef) = 2
    /\ NoAgedCell(gridRef)
    /\ Len(historyRef) = 2

----------------------------------------------------------------------------
(* SpecClock: ticks 62, 63, 100 and 101 ms after the last accepted step at *)
(* the speeds 9 and 15 (thresholds of 100 and 62.5 ms), running and        *)
(* paused, on a grid of 2 rows and 1 column whose upper cell the pointer    *)
(* toggles.                                                                *)

MaxClockTicks == 5

ClockDelays == {62, 63, 100, 101}
ClockSpeeds == {9, 15}
ClockPositions == {<<5, 5>>}

InitClock == Constructed(8, 12)

NextClock ==
    \/ \E seed \in Draws(config.mode, innerWidth, innerHeight, config.resolution) :
            Mount(seed)
    \/ \E d \in ClockDelays : TickAfter(d, MaxClockTicks * 100)
    \/ toggleRunning
    \/ \E s \in ClockSpeeds : setSpeed(s)
    \/ \E p \in ClockPositions : handleCanvasInteraction(p[1], p[2])
    \/ Unmount

SpecClock == InitClock /\ [][NextClock]_vars

(* C12: a tick at time t calls step exactly once if the running flag is    *)
(* true and t - lastUpdate > 1000 / (speed + 1), strictly, and then        *)
(* lastUpdate becomes t; otherwise it does not call step and lastUpdate    *)
(* and the store stay; it calls draw exactly once either way.  The         *)
(* timestamp changes in accepted steps only, so two consecutive accepted   *)
(* steps are more than the threshold apart.                                *)
C12_TickTiming ==
    [][/\ \A d \in ClockDelays : \A cb \in pending :
            animate(cb, lastUpdateRef + d) =>
                /\ drawCalls' = 1
                /\ IF isRunning /\ d * (config.speed + 1) > SecondMs
                   THEN /\ stepCalls' = stepCalls + 1
                        /\ lastUpdateRef' = lastUpdateRef + d
                   ELSE /\ stepCalls' = stepCalls
                        /\ lastUpdateRef' = lastUpdateRef
                        /\ UNCHANGED storeVars
       /\ lastUpdateRef' # lastUpdateRef =>
            /\ stepCalls' = stepCalls + 1
            /\ (lastUpdateRef' - lastUpdateRef) * (config.speed + 1) > SecondMs]_vars

\* at speed 9 a first step accepted at 101 ms and no second one 100 ms later:
\* the latest tick drew the grid as the step left it
C12_Witness ==
    /\ isRunning
    /\ config.speed = 9
    /\ lastUpdateRef = 101
    /\ stepCalls = 1
    /\ drawCalls = 1
    /\ canvas.cells = Squares(config, gridRef, historyRef, cycleHueRef)
    /\ canvas.cells # {}

(* C13: while the running flag is false a callback stays queued, and a     *)
(* tick draws the current state and calls no step: grid, history,          *)
(* generation counter, cycle hue and timestamp stay.  The FREEZE/EVOLVE    *)
(* button leaves the timestamp and the store alone, so a tick of the       *)
(* resumed loop steps exactly when its time is more than the threshold     *)
(* past the timestamp from before the pause.                               *)
C13_PausedTicks ==
    [][/\ (phase = "mounted" /\ ~isRunning) => pending # {}
       /\ \A d \in ClockDelays : \A cb \in pending :
            animate(cb, lastUpdateRef + d) =>
                IF ~isRunning
                THEN /\ drawCalls' = 1
                     /\ canvas'.cells = Squares(config, gridRef, historyRef, cycleHueRef)
                     /\ UNCHANGED <<gridRef, historyRef, generation, cycleHueRef,
                                    lastUpdateRef, stepCalls>>
                ELSE stepCalls' = stepCalls + 1 <=> d * (config.speed + 1) > SecondMs
       /\ toggleRunning => UNCHANGED <<lastUpdateRef, storeVars>>
       /\ ~isRunning => lastUpdateRef' = lastUpdateRef]_vars

\* paused after one step at 63 ms, a cell toggled since: the tick after it
\* drew the grid with that cell, at generation 1
C13_Witness ==
    /\ phase = "mounted"
    /\ ~isRunning
    /\ lastUpdateRef = 63
    /\ generation = 1
    /\ activePreset = "null"
    /\ drawCalls = 1
    /\ canvas.cells = Squares(config, gridRef, historyRef, cycleHueRef)
    /\ \E c \in canvas.cells : c.y = 0 /\ c.fill.l = 85

\* a tick of SpecClock
ClockTick == \E d \in ClockDelays : TickAfter(d, MaxClockTicks * 100)

(* C14: after teardown the request requestRef names is cancelled: no       *)
(* callback is queued, so no tick (no step, no draw) can run in any later  *)
(* state, and cancelling the same handle once more changes nothing.        *)
C14_Cancel ==
    phase = "unmounted" =>
        /\ pending = {}
        /\ ~ENABLED ClockTick
        /\ cancelAnimationFrame(pending, requestRef) = pending

\* torn down after two steps with time left for more ticks; requestRef still
\* holds the cancelled handle
C14_Witness ==
    /\ phase = "unmounted"
    /\ isRunning
    /\ generation = 2
    /\ lastUpdateRef + 101 <= MaxClockTicks * 100
    /\ drawCalls = 1
    /\ requestRef = 1

----------------------------------------------------------------------------
(* SpecLive: every control that changes the configuration or the running   *)
(* flag, between ticks 100 ms apart, in a window of 8 x 12 pixels: a grid  *)
(* of 2 rows (1 row at resolution 16) and 1 column, a history of rows 1    *)
(* cell wide.  On this grid a cell has 0, 2, 6 or 8 live neighbours; on    *)
(* this history the rules 110 and 254 differ (pattern 111).                *)

MaxLiveTicks == 2

LiveSpeeds == {9, 15}
LiveResolutions == {8, 16}
LiveRules == {110, 254}
LiveBirths == {6}
LiveSurvivals == {2}
LiveColorModes == {"Age", "Cycle"}
LiveHues == {180, 200}
LiveTrails == {30, 50}

InitLive == Constructed(8, 12)

NextLive ==
    \/ \E seed \in Draws(config.mode, innerWidth, innerHeight, config.resolution) :
            Mount(seed)
    \/ TickAfter(100, MaxLiveTicks * 100)
    \/ toggleRunning
    \/ \E s \in LiveSpeeds : setSpeed(s)
    \/ \E m \in Modes :
            \E seed \in UniformDraws(m, innerWidth, innerHeight, config.resolution) :
                setMode(m, seed)
    \/ \E res \in LiveResolutions :
            \E seed \in UniformDraws(config.mode, innerWidth, innerHeight, res) :
                setResolution(res, seed)
    \/ \E r \in LiveRules : setRule1D(r)
    \/ \E n \in LiveBirths : toggleBirth(n)
    \/ \E n \in LiveSurvivals : toggleSurvival(n)
    \/ \E c \in LiveColorModes : setColorMode(c)
    \/ \E h \in LiveHues : setHue(h)
    \/ \E t \in LiveTrails : setTrails(t)

SpecLive == InitLive /\ [][NextLive]_vars

\* a tick of SpecLive
LiveTick == \E cb \in pending : animate(cb, lastUpdateRef + 100)

(* C15: whatever was changed since the last tick (speed, mode, rule,       *)
(* birth and survival sets, resolution, colours, the running flag), the    *)
(* queued callback is one of the current render, and the next tick takes   *)
(* its threshold from the current speed and running flag, steps by the     *)
(* current mode and rules, draws with the current colours, resolution and  *)
(* trails, and leaves a callback queued.                                   *)
C15_ConfigLive ==
    [][/\ phase = "mounted" =>
            /\ pending # {}
            /\ \A cb \in pending : cb.config = config /\ cb.isRunning = isRunning
       /\ LiveTick =>
            /\ IF isRunning /\ 100 * (config.speed + 1) > SecondMs
               THEN IF config.mode = "2D"
                    THEN gridRef' = Step2D(gridRef, config.birth2D, config.survival2D)
                    ELSE historyRef' =
                            PushShift(historyRef,
                                      NextRow(historyRef[Len(historyRef)], config.rule1D),
                                      Ceil(innerHeight, config.resolution))
               ELSE UNCHANGED <<storeVars, lastUpdateRef>>
            /\ canvas' = [fade |-> 100 - config.trails, res |-> config.resolution,
                          cells |-> Squares(config, gridRef', historyRef', cycleHueRef')]
            /\ pending' # {}]_vars

\* one step under a birth set with 6 added, drawn with the hue 200 and the
\* trails 50 set before it: the born cell is there in the new hue
C15_Witness ==
    /\ phase = "mounted"
    /\ config.mode = "2D"
    /\ config.birth2D = {3, 6}
    /\ config.hue = 200
    /\ config.colorMode = "Age"
    /\ config.trails = 50
    /\ generation = 1
    /\ gridRef = <<<<2>>, <<1>>>>
    /\ canvas.fade = 50
    /\ \E c \in canvas.cells : c.y = 1 /\ c.fill.h = 208

----------------------------------------------------------------------------
(* SpecStep: step as an operation on the stores, whatever they hold: the   *)
(* mounted component in either mode with a grid that is empty (no rows, or *)
(* rows of no cells) or 2 x 2, and a history that is empty or one row of 2 *)
(* cells, stepped by ticks.  (The component itself never brings an empty   *)
(* history to a 1D step: every path into 1D mode runs initGrid first.)     *)

MaxStepTicks == 2

StepGrids == {<<>>, <<<<>>, <<>>>>} \cup [1..2 -> [1..2 -> {0, 1}]]
StepHistories == {<<>>} \cup {<<r>> : r \in [1..2 -> {0, 1}]}

InitStep ==
    \E m \in Modes : \E g \in StepGrids : \E h \in StepHistories :
        /\ config = [InitialConfig EXCEPT !.mode = m]
        /\ activePreset = "null"
        /\ isRunning = TRUE
        /\ generation = 0
        /\ gridRef = g
        /\ historyRef = h
        /\ lastUpdateRef = 0
        /\ cycleHueRef = 0
        /\ innerWidth = 16
        /\ innerHeight = 16
        /\ phase = "mounted"
        /\ requestRef = 1
        /\ pending = {[id |-> 1, config |-> config, isRunning |-> TRUE]}
        /\ canvas = Blank
        /\ drawCalls = 0
        /\ stepCalls = 0
        /\ generated = h
        /\ lived = g

NextStep == TickAfter(100, MaxStepTicks * 100)

SpecStep == InitStep /\ [][NextStep]_vars

\* the store step works on holds no cell
EmptyStore ==
    IF config.mode = "2D"
    THEN Len(gridRef) = 0 \/ Len(gridRef[1]) = 0
    ELSE Len(historyRef) = 0

----------------------------------------------------------------------------
(* SpecHue: the cycle hue around its wrap.  The specification starts where *)
(* the component is after mounting in a window of 8 x 8 pixels with no     *)
(* live cell and HueStart ticks, 100 ms apart, each of which stepped (its  *)
(* one cell stays dead), and goes on with ticks, both modes, resizes to    *)
(* and from a height of 0 (a grid of no rows), and the operations that     *)
(* are not steps.                                                          *)

HueStart == 357
MaxHueTicks == 361

HueHeights == {0, 8}
HueBaseHues == {180, 200}

\* the state after Mount with no live cell and n accepted ticks
Stepped(n) ==
    /\ config = InitialConfig
    /\ activePreset = "GOL"
    /\ isRunning = TRUE
    /\ generation = n
    /\ gridRef = <<<<0>>>>
    /\ historyRef = <<>>
    /\ lastUpdateRef = n * 100
    /\ cycleHueRef = n % HueCycle
    /\ innerWidth = 8
    /\ innerHeight = 8
    /\ phase = "mounted"
    /\ requestRef = 1
    /\ pending = {[id |-> 1, config |-> InitialConfig, isRunning |-> TRUE]}
    /\ canvas = [fade |-> 100 - InitialConfig.trails,
                 res |-> InitialConfig.resolution, cells |-> {}]
    /\ drawCalls = 1
    /\ stepCalls = n
    /\ generated = <<>>
    /\ lived = <<<<0>>>>

InitHue == Stepped(HueStart)

NextHue ==
    \/ TickAfter(100, MaxHueTicks * 100)
    \/ \E h \in HueBaseHues : setHue(h)
    \/ \E c \in ColorModes : setColorMode(c)
    \/ \E m \in Modes :
            \E seed \in Draws(m, innerWidth, innerHeight, config.resolution) :
                setMode(m, seed)
    \/ \E h \in HueHeights :
            \E seed \in Draws(config.mode, innerWidth, h, config.resolution) :
                handleResize(innerWidth, h, seed)
    \/ \E seed \in Draws(config.mode, innerWidth, innerHeight, config.resolution) :
            resetSeed(seed)
    \/ handleCanvasInteraction(5, 5)
    \/ toggleRunning

SpecHue == InitHue /\ [][NextHue]_vars

(* C17, as stated: the cycle hue is in 0..359; every call of step, in      *)
(* either mode, takes it to the next value (359 to 0); nothing else        *)
(* changes it.                                                             *)
C17_EveryStepAdvancesHue ==
    [][/\ cycleHueRef \in 0..(HueCycle - 1)
       /\ IF stepCalls' = stepCalls + 1
          THEN cycleHueRef' = (IF cycleHueRef = HueCycle - 1 THEN 0 ELSE cycleHueRef + 1)
          ELSE cycleHueRef' = cycleHueRef]_vars

(* C17, amended: the cycle hue is in 0..359; every call of step takes it   *)
(* to the next value (359 to 0), in either mode, except in 2D mode on a    *)
(* grid of no rows, where step returns before it does; nothing else        *)
(* (a change of the base hue or of another setting, initGrid, a toggled    *)
(* cell, draw) changes it.                                                 *)
C17_CycleHue ==
    [][/\ cycleHueRef \in 0..(HueCycle - 1)
       /\ IF stepCalls' = stepCalls + 1 /\ ~(config.mode = "2D" /\ Len(gridRef) = 0)
          THEN cycleHueRef' = (IF cycleHueRef = HueCycle - 1 THEN 0 ELSE cycleHueRef + 1)
          ELSE cycleHueRef' = cycleHueRef]_vars

\* wrapped to 0 by the 360th step, the base hue changed and the grid
\* initialized on the way, the last step in 1D mode
C17_Witness ==
    /\ cycleHueRef = 0
    /\ lastUpdateRef = 36000
    /\ config.mode = "1D"
    /\ config.hue = 200
    /\ generation = 1
    /\ drawCalls = 1

----------------------------------------------------------------------------
(* SpecColor: getCellColor on drawn inputs.  The component is paused on a  *)
(* grid of 3 x 3 cells (a window of 24 x 24 pixels) whose centre cell has  *)
(* a drawn age and a drawn number of live neighbours, with a drawn base    *)
(* hue, colour mode and cycle hue; a tick draws it.                        *)

ColorHues == {0, 20, 180, 359, 360}
ColorAges == {1, 2, 29, 30, 31, 100}
ColorCounts == 0..8
ColorCycleHues == {0, 359}
AllColorModes == {"Classic", "Age", "Density", "Cycle"}

\* the cells around the centre of the 3 x 3 grid, in reading order
Around == << <<1, 1>>, <<1, 2>>, <<1, 3>>, <<2, 1>>, <<2, 3>>, <<3, 1>>, <<3, 2>>, <<3, 3>> >>

\* the centre at the given age, the first n cells around it newly alive
ColorGrid(age, n) ==
    [r \in 1..3 |-> [c \in 1..3 |->
        IF r = 2 /\ c = 2 THEN age
        ELSE IF \E k \in 1..n : Around[k] = <<r, c>> THEN 1 ELSE 0]]

InitColor ==
    \E hue \in ColorHues : \E mode \in AllColorModes : \E age \in ColorAges :
    \E n \in ColorCounts : \E cyc \in ColorCycleHues :
        /\ config = [InitialConfig EXCEPT !.hue = hue, !.colorMode = mode]
        /\ activePreset = "null"
        /\ isRunning = FALSE
        /\ generation = age - 1
        /\ gridRef = ColorGrid(age, n)
        /\ historyRef = <<>>
        /\ lastUpdateRef = 100 * (age - 1)
        /\ cycleHueRef = cyc
        /\ innerWidth = 24
        /\ innerHeight = 24
        /\ phase = "mounted"
        /\ requestRef = 1
        /\ pending = {[id |-> 1, config |-> config, isRunning |-> FALSE]}
        /\ canvas = Blank
        /\ drawCalls = 0
        /\ stepCalls = age - 1
        /\ generated = <<>>
        /\ lived = gridRef

NextColor == \E cb \in pending : animate(cb, lastUpdateRef + 100)

SpecColor == InitColor /\ [][NextColor]_vars

\* the hue and lightness columns of the colour table
TableHue(mode, baseHue, age, n, cycleHue) ==
    CASE mode = "Classic" -> baseHue
      [] mode = "Age" -> (baseHue + 8 * age) % 360
      [] mode = "Density" -> (baseHue - 25 * n) % 360
      [] mode = "Cycle" -> cycleHue

TableLightness(mode, age, n) ==
    CASE mode = "Classic" -> 60
      [] mode = "Age" -> (IF age = 1 THEN 85 ELSE IF 70 - age > 40 THEN 70 - age ELSE 40)
      [] mode = "Density" -> 40 + 5 * n
      [] mode = "Cycle" -> 60

(* C18: every live cell is drawn in the colour of the table: Classic: the  *)
(* base hue, lightness 60; Age: hue (baseHue + 8 age) mod 360, lightness   *)
(* 85 at age 1, else max(40, 70 - age); Density: hue (baseHue - 25 n) mod  *)
(* 360, lightness 40 + 5 n; Cycle: the cycle hue, lightness 60; saturation *)
(* 80 throughout; a hue taken mod 360 lies in 0..359.                      *)
C18_ColorTable ==
    drawCalls = 1 =>
        \A r \in 1..Len(gridRef) : \A c \in 1..Len(gridRef[r]) :
            gridRef[r][c] > 0 =>
                LET n == IF config.colorMode = "Density"
                         THEN LiveNeighbours(gridRef, r, c) ELSE 0
                IN  \E sq \in canvas.cells :
                        /\ sq.x = c - 1
                        /\ sq.y = r - 1
                        /\ sq.fill.h = TableHue(config.colorMode, config.hue,
                                                gridRef[r][c], n, cycleHueRef)
                        /\ sq.fill.s = 80
                        /\ sq.fill.l = TableLightness(config.colorMode, gridRef[r][c], n)

----------------------------------------------------------------------------
(* SpecPreset: the six presets selected in any order, between ticks and    *)
(* changes of every setting a preset does not name, in a window of 8 x 12  *)
(* pixels (a grid of 2 rows and 1 column, 1 row at resolution 16).         *)

MaxPresetTicks == 2

PresetKeys == {"GOL", "HIGHLIFE", "MAZE", "RULE30", "RULE110", "RULE90"}
PresetResolutions == {8, 16}

InitPreset == Constructed(8, 12)

NextPreset ==
    \/ \E seed \in UniformDraws(config.mode, innerWidth, innerHeight, config.resolution) :
            Mount(seed)
    \/ TickAfter(100, MaxPresetTicks * 100)
    \/ \E key \in PresetKeys :
            \E seed \in UniformDraws(PRESETS[key].mode, innerWidth, innerHeight,
                                     config.resolution) :
                selectPreset(key, seed)
    \/ setSpeed(9)
    \/ setHue(200)
    \/ setColorMode("Cycle")
    \/ setTrails(50)
    \/ \E res \in PresetResolutions :
            \E seed \in UniformDraws(config.mode, innerWidth, innerHeight, res) :
                setResolution(res, seed)
    \/ setRule1D(254)
    \/ toggleBirth(6)
    \/ toggleSurvival(2)

SpecPreset == InitPreset /\ [][NextPreset]_vars

(* C19: selectPreset sets the mode to the preset's; a 2D preset sets the   *)
(* birth and survival sets and leaves the rule number, a 1D preset sets    *)
(* the rule number and leaves the two sets; resolution, speed, hue,        *)
(* colour mode and trails stay; the store of the preset's mode is as       *)
(* initGrid makes it for the window and the resolution, and the            *)
(* generation counter is 0.                                                *)
C19_ApplyPreset ==
    [][\A key \in PresetKeys : selectPreset(key, gridRef') =>
          LET p == PRESETS[key]
              rows == Rows(innerHeight, config.resolution)
              cols == Cols(innerWidth, config.resolution)
          IN  /\ config'.mode = p.mode
              /\ IF p.mode = "2D"
                 THEN /\ config'.birth2D = p.birth
                      /\ config'.survival2D = p.survival
                      /\ config'.rule1D = config.rule1D
                      /\ Len(gridRef') = rows
                      /\ \A r \in 1..rows : Len(gridRef'[r]) = cols
                      /\ NoAgedCell(gridRef')
                 ELSE /\ config'.rule1D = p.rule
                      /\ config'.birth2D = config.birth2D
                      /\ config'.survival2D = config.survival2D
                      /\ Len(historyRef') = 1
                      /\ Len(historyRef'[1]) = cols
                      /\ \A i \in 1..cols :
                            historyRef'[1][i] = IF i = (cols \div 2) + 1 THEN 1 ELSE 0
              /\ config'.resolution = config.resolution
              /\ config'.speed = config.speed
              /\ config'.hue = config.hue
              /\ config'.colorMode = config.colorMode
              /\ config'.trails = config.trails
              /\ generation' = 0]_vars

\* RULE90 selected after a step, with every other setting off its initial
\* value
C19_Witness ==
    /\ activePreset = "RULE90"
    /\ config.mode = "1D"
    /\ config.rule1D = 90
    /\ config.birth2D = {3, 6}
    /\ config.survival2D = {3}
    /\ config.resolution = 16
    /\ config.speed = 9
    /\ config.hue = 200
    /\ config.colorMode = "Cycle"
    /\ config.trails = 50
    /\ generation = 0
    /\ lastUpdateRef > 0
    /\ Len(historyRef) = 1

----------------------------------------------------------------------------
(* SpecDims: initGrid called from every caller, in either mode, for        *)
(* windows 0 or 20 pixels wide and 0 or 8 pixels high at resolutions 8 and *)
(* 16 (0, 2 or 3 columns; 0 or 1 row).                                     *)

MaxDimTicks == 1

DimWidths == {0, 20}
DimHeights == {0, 8}
DimResolutions == {8, 16}
DimPresets == {"GOL", "RULE30"}

InitDims == \E w \in DimWidths : \E h \in DimHeights : Constructed(w, h)

NextDims ==
    \/ \E seed \in Draws(config.mode, innerWidth, innerHeight, config.resolution) :
            Mount(seed)
    \/ TickAfter(100, MaxDimTicks * 100)
    \/ \E w \in DimWidths : \E h \in DimHeights :
            \E seed \in Draws(config.mode, w, h, config.resolution) :
                handleResize(w, h, seed)
    \/ \E seed \in Draws(config.mode, innerWidth, innerHeight, config.resolution) :
            resetSeed(seed)
    \/ \E res \in DimResolutions :
            \E seed \in Draws(config.mode, innerWidth, innerHeight, res) :
                setResolution(res, seed)
    \/ \E m \in Modes :
            \E seed \in Draws(m, innerWidth, innerHeight, config.resolution) :
                setMode(m, seed)
    \/ \E key \in DimPresets :
            \E seed \in Draws(PRESETS[key].mode, innerWidth, innerHeight,
                              config.resolution) :
                selectPreset(key, seed)

SpecDims == InitDims /\ [][NextDims]_vars

\* a step that calls initGrid; every caller passes the mode and the
\* resolution of the configuration it leaves
DimsInitialized ==
    \/ Mount(gridRef')
    \/ handleResize(innerWidth', innerHeight', gridRef')
    \/ resetSeed(gridRef')
    \/ \E res \in DimResolutions : setResolution(res, gridRef')
    \/ \E m \in Modes : setMode(m, gridRef')
    \/ \E key \in DimPresets : selectPreset(key, gridRef')

\* n is the least count of cells of size res that covers size pixels
Covers(n, size, res) == n * res >= size /\ (n = 0 \/ (n - 1) * res < size)

\* every row of g has n cells, each 0 or 1
FreshRows(g, n) ==
    \A r \in 1..Len(g) :
        /\ Len(g[r]) = n
        /\ \A c \in 1..n : g[r][c] \in {0, 1}

\* row is all 0 but for a 1 at index floor(Len(row) / 2)
CentreSeeded(row) ==
    /\ (Len(row) \div 2) + 1 \in 1..Len(row)
    /\ \A i \in 1..Len(row) : row[i] = IF i = (Len(row) \div 2) + 1 THEN 1 ELSE 0

(* C20, as stated: initGrid builds, in 2D, a grid of ceil(height / res)    *)
(* rows of ceil(width / res) cells, each 0 or 1, and in 1D a history of    *)
(* one row of ceil(width / res) cells, all 0 but the one at index          *)
(* floor(cols / 2), which is 1.                                            *)
C20_InitializeDims ==
    [][DimsInitialized =>
          IF config'.mode = "2D"
          THEN /\ Covers(Len(gridRef'), innerHeight', config'.resolution)
               /\ \E n \in 0..innerWidth' :
                    /\ Covers(n, innerWidth', config'.resolution)
                    /\ FreshRows(gridRef', n)
          ELSE /\ Len(historyRef') = 1
               /\ Covers(Len(historyRef'[1]), innerWidth', config'.resolution)
               /\ CentreSeeded(historyRef'[1])]_vars

(* C20, amended: as stated, except that in 1D a window of width 0 (cols =  *)
(* 0) gives a row of one cell, which is 1.                                 *)
C20_InitializeDimsOrOneCell ==
    [][DimsInitialized =>
          IF config'.mode = "2D"
          THEN /\ Covers(Len(gridRef'), innerHeight', config'.resolution)
               /\ \E n \in 0..innerWidth' :
                    /\ Covers(n, innerWidth', config'.resolution)
                    /\ FreshRows(gridRef', n)
          ELSE /\ Len(historyRef') = 1
               /\ IF innerWidth' = 0
                  THEN historyRef'[1] = <<1>>
                  ELSE Covers(Len(historyRef'[1]), innerWidth', config'.resolution)
               /\ CentreSeeded(historyRef'[1])]_vars

\* a 1D store initialised for a window 20 pixels wide at resolution 8
C20_Witness ==
    /\ phase = "mounted"
    /\ config.mode = "1D"
    /\ config.resolution = 8
    /\ innerWidth = 20
    /\ historyRef = << <<0, 1, 0>> >>
    /\ generation = 0

----------------------------------------------------------------------------
(* SpecDraw: frames that come before and after the step threshold (30 ms   *)
(* and 100 ms after the last step, at the initial speed), running and      *)
(* paused, in both modes and all four colour modes, in a window of 16 x 16 *)
(* pixels (a grid of 2 x 2 cells, so Density counts wrapped neighbours).   *)

MaxDrawTicks == 3

DrawDelays == {30, 100}
DrawPositions == {<<5, 5>>, <<13, 5>>}

InitDraw == Constructed(16, 16)

NextDraw ==
    \/ \E seed \in UniformDraws(config.mode, innerWidth, innerHeight, config.resolution) :
            Mount(seed)
    \/ \E d \in DrawDelays : TickAfter(d, MaxDrawTicks * 100)
    \/ toggleRunning
    \/ \E p \in DrawPositions : handleCanvasInteraction(p[1], p[2])
    \/ \E c \in AllColorModes : setColorMode(c)
    \/ \E m \in Modes :
            \E seed \in UniformDraws(m, innerWidth, innerHeight, config.resolution) :
                setMode(m, seed)

SpecDraw == InitDraw /\ [][NextDraw]_vars

\* a frame d ms after the last step on which the threshold test fails
IdleTick(d) ==
    /\ ~(isRunning /\ d * (config.speed + 1) > SecondMs)
    /\ \E cb \in pending : animate(cb, lastUpdateRef + d)

(* C21: a frame that does not step leaves the grid, the history, the       *)
(* generation counter, the cycle hue and the time of the last step as they *)
(* were, and paints the squares of that unchanged state; painted after a   *)
(* frame that showed the same state, it shows the same squares again.      *)
C21_DrawLeavesState ==
    [][\A d \in DrawDelays : IdleTick(d) =>
          /\ UNCHANGED <<gridRef, historyRef, generation, cycleHueRef, lastUpdateRef>>
          /\ canvas'.cells = Squares(config, gridRef, historyRef, cycleHueRef)
          /\ canvas = [fade |-> 100 - config.trails, res |-> config.resolution,
                       cells |-> Squares(config, gridRef, historyRef, cycleHueRef)]
                => canvas' = canvas]_vars

\* an idle frame in Density mode over a grid with aged cells: the stores
\* are as the step left them and the canvas shows the recounted neighbours
C21_Witness ==
    /\ phase = "mounted"
    /\ config.mode = "2D"
    /\ config.colorMode = "Density"
    /\ generation = 1
    /\ lastUpdateRef = 100
    /\ drawCalls = 1
    /\ \E y \in 1..Len(gridRef) : \E x \in 1..Len(gridRef[y]) : gridRef[y][x] = 2
    /\ \E c \in canvas.cells : c.fill.l > 40
    /\ canvas.cells = Squares(config, gridRef, historyRef, cycleHueRef)

----------------------------------------------------------------------------
(* SpecLoop: the animation loop under every operation that re-runs the     *)
(* animation effect (speed, mode, preset, resolution, pause and resume),   *)
(* the ones that do not (resize, reset, painting), frames, and the         *)
(* unmount, in a window of 8 x 12 pixels.                                  *)

MaxLoopTicks == 3

LoopSpeeds == {9, 15}
LoopResolutions == {8, 16}
LoopPresets == {"HIGHLIFE", "RULE90"}
LoopHeights == {8, 12}
LoopPositions == {<<5, 5>>}

InitLoop == Constructed(8, 12)

NextLoop ==
    \/ \E seed \in UniformDraws(config.mode, innerWidth, innerHeight, config.resolution) :
            Mount(seed)
    \/ TickAfter(100, MaxLoopTicks * 100)
    \/ toggleRunning
    \/ \E s \in LoopSpeeds : setSpeed(s)
    \/ \E m \in Modes :
            \E seed \in UniformDraws(m, innerWidth, innerHeight, config.resolution) :
                setMode(m, seed)
    \/ \E key \in LoopPresets :
            \E seed \in UniformDraws(PRESETS[key].mode, innerWidth, innerHeight,
                                     config.resolution) :
                selectPreset(key, seed)
    \/ \E res \in LoopResolutions :
            \E seed \in UniformDraws(config.mode, innerWidth, innerHeight, res) :
                setResolution(res, seed)
    \/ \E h \in LoopHeights :
            \E seed \in UniformDraws(config.mode, innerWidth, h, config.resolution) :
                handleResize(innerWidth, h, seed)
    \/ \E seed \in UniformDraws(config.mode, innerWidth, innerHeight, config.resolution) :
            resetSeed(seed)
    \/ \E p \in LoopPositions : handleCanvasInteraction(p[1], p[2])
    \/ Unmount

SpecLoop == InitLoop /\ [][NextLoop]_vars

(* C22: at most one animation callback is queued at any time, and the      *)
(* handle kept in requestRef is the handle of the queued one, so the       *)
(* cancel of a re-registration or of the unmount removes it; while the     *)
(* component is mounted exactly one is queued. A frame runs the queued     *)
(* callback, and that run calls step at most once.                         *)
C22_SingleCallback ==
    /\ [](/\ Cardinality(pending) <= 1
          /\ \A cb \in pending : cb.id = requestRef
          /\ phase = "mounted" => Cardinality(pending) = 1
          /\ phase \in {"constructed", "unmounted"} => pending = {})
    /\ [][(\E cb \in pending : animate(cb, lastUpdateRef + 100)) =>
              /\ stepCalls' \in {stepCalls, stepCalls + 1}
              /\ generation' \in {generation, generation + 1}]_vars

\* one callback queued after a step, a pause, a change of speed and a
\* switch to 1D
C22_Witness ==
    /\ phase = "mounted"
    /\ Cardinality(pending) = 1
    /\ lastUpdateRef > 0
    /\ ~isRunning
    /\ config.speed = 9
    /\ config.mode = "1D"
    /\ config.resolution = 16

----------------------------------------------------------------------------
(* SpecGuard: every way into 1D mode (mode button, 1D presets) and every   *)
(* operation that rebuilds the store (resolution, resize, reset), between  *)
(* frames that step, from the constructed component (mode 2D, empty        *)
(* history), in windows 8 pixels wide and 0, 8 or 12 pixels high.          *)

MaxGuardTicks == 3

GuardHeights == {0, 8, 12}
GuardResolutions == {8, 16}
GuardPresets == {"GOL", "RULE30", "RULE90"}

InitGuard == \E h \in GuardHeights : Constructed(8, h)

NextGuard ==
    \/ \E seed \in UniformDraws(config.mode, innerWidth, innerHeight, config.resolution) :
            Mount(seed)
    \/ TickAfter(100, MaxGuardTicks * 100)
    \/ toggleRunning
    \/ \E m \in Modes :
            \E seed \in UniformDraws(m, innerWidth, innerHeight, config.resolution) :
                setMode(m, seed)
    \/ \E key \in GuardPresets :
            \E seed \in UniformDraws(PRESETS[key].mode, innerWidth, innerHeight,
                                     config.resolution) :
                selectPreset(key, seed)
    \/ \E res \in GuardResolutions :
            \E seed \in UniformDraws(config.mode, innerWidth, innerHeight, res) :
                setResolution(res, seed)
    \/ \E h \in GuardHeights :
            \E seed \in UniformDraws(config.mode, innerWidth, h, config.resolution) :
                handleResize(innerWidth, h, seed)
    \/ \E seed \in UniformDraws(config.mode, innerWidth, innerHeight, config.resolution) :
            resetSeed(seed)

SpecGuard == InitGuard /\ [][NextGuard]_vars

(* C23: no frame ever runs a 1D step on an empty history: whenever the     *)
(* mounted component, or the callback it has queued, is in 1D mode, the    *)
(* history holds at least one row, and that row has a cell; the component  *)
(* never reaches the state in which the step threw.                        *)
C23_HistoryNonEmptyIn1D ==
    /\ phase # "crashed"
    /\ (phase = "mounted" /\ config.mode = "1D") =>
            /\ Len(historyRef) >= 1
            /\ Len(historyRef[Len(historyRef)]) >= 1
    /\ \A cb \in pending : cb.config.mode = "1D" => Len(historyRef) >= 1

\* 1D steps taken after RULE90 was selected in a window of height 0, where
\* every push is followed by a shift
C23_Witness ==
    /\ phase = "mounted"
    /\ config.mode = "1D"
    /\ activePreset = "RULE90"
    /\ innerHeight = 0
    /\ generation = 2
    /\ Len(historyRef) = 1
    /\ Len(gridRef) > 0

====
